---- MODULE Spec2Model ----
(***************************************************************************)
(* Model of navigator_auth/exceptions.pyx: the AuthException base class    *)
(* and its seven subclasses.  One behaviour is the life of one constructor *)
(* call: the call is bound to the class's signature, the __init__ bodies   *)
(* run, and the resulting instance (if any) is then read through get() and *)
(* __str__().                                                              *)
(***************************************************************************)
EXTENDS Integers, Sequences, FiniteSets, TLC

VARIABLES call, outcome, op, ret, ncalls, gets

vars == <<call, outcome, op, ret, ncalls, gets>>

(* Number of get()/__str__() calls followed on one instance. *)
MaxCalls == 3

-----------------------------------------------------------------------------
(* Python values.  An int is kept as two limbs, value = hi * 65536 + lo,   *)
(* so that integers outside the C int range can be passed to a constructor.*)

None == [type |-> "NoneType"]

Str(s) == [type |-> "str", val |-> s]

PyInt(n) == [type |-> "int", hi |-> n \div 65536, lo |-> n % 65536]

PyBig(hi, lo) == [type |-> "int", hi |-> hi, lo |-> lo]

(* `int status`: conversion of a Python int to a C int (32 bits). *)
CIntFits(v) == v.type = "int" /\ v.hi >= -32768 /\ v.hi <= 32767

CIntVal(v) == v.hi * 65536 + v.lo

(* Truth value of a str-or-None object. *)
Truthy(v) == v # None /\ v # Str("")

PyOrNotNone(a, b) == IF a # None THEN a ELSE b

(* `a or b` *)
PyOr(a, b) == IF Truthy(a) THEN a ELSE b

(* f"{value}" of a str-or-None object. *)
Format(v) == IF v = None THEN "None" ELSE v.val

(* __name__ inside the module. *)
ModuleName == "navigator_auth.exceptions"

Raise(e) == [kind |-> "raise", exc |-> e]

Return(obj) == [kind |-> "instance", obj |-> obj]

NoKw == [k \in {} |-> None]

-----------------------------------------------------------------------------
(* Constructors.  Each takes the positional arguments and the keyword      *)
(* arguments of the call and yields Return(instance) or Raise(exception).  *)

AuthExceptionKeepsDefault(cls, pos, kw) ==
    IF Len(pos) > 2 THEN Raise("TypeError")
    ELSE IF Len(pos) >= 1 /\ "message" \in DOMAIN kw THEN Raise("TypeError")
    ELSE IF Len(pos) >= 2 /\ "status" \in DOMAIN kw THEN Raise("TypeError")
    ELSE IF Len(pos) = 0 /\ "message" \notin DOMAIN kw THEN Raise("TypeError")
    ELSE
      LET message == IF Len(pos) >= 1 THEN pos[1] ELSE kw["message"]
          given   == Len(pos) >= 2 \/ "status" \in DOMAIN kw
          status  == IF Len(pos) >= 2 THEN pos[2] ELSE kw["status"]
          kwargs  == [k \in DOMAIN kw \ {"message", "status"} |-> kw[k]]
      IN  IF given /\ status.type # "int" THEN Raise("TypeError")
          ELSE IF given /\ ~CIntFits(status) THEN Raise("OverflowError")
          ELSE IF message.type \notin {"str", "NoneType"} THEN Raise("TypeError")
          ELSE Return([cls        |-> cls,
                       args       |-> <<message>>,
                       stacktrace |-> IF "stacktrace" \in DOMAIN kwargs
                                      THEN kwargs["stacktrace"] ELSE None,
                       message    |-> message,
                       status     |-> 400])

(* AuthException.__init__(self, str message, int status = 400, kwargs) with   *)
(* keyword catch-all, run on an instance of class cls.                      *)
AuthException(cls, pos, kw) ==
    IF Len(pos) > 2 THEN Raise("TypeError")
    ELSE IF Len(pos) >= 1 /\ "message" \in DOMAIN kw THEN Raise("TypeError")
    ELSE IF Len(pos) >= 2 /\ "status" \in DOMAIN kw THEN Raise("TypeError")
    ELSE IF Len(pos) = 0 /\ "message" \notin DOMAIN kw THEN Raise("TypeError")
    ELSE
      LET message == IF Len(pos) >= 1 THEN pos[1] ELSE kw["message"]
          given   == Len(pos) >= 2 \/ "status" \in DOMAIN kw
          status  == IF Len(pos) >= 2 THEN pos[2] ELSE kw["status"]
          kwargs  == [k \in DOMAIN kw \ {"message", "status"} |-> kw[k]]
      IN  IF given /\ status.type # "int" THEN Raise("TypeError")
          ELSE IF given /\ ~CIntFits(status) THEN Raise("OverflowError")
          ELSE IF message.type \notin {"str", "NoneType"} THEN Raise("TypeError")
          ELSE Return([cls        |-> cls,
                       args       |-> <<message>>,
                       stacktrace |-> IF "stacktrace" \in DOMAIN kwargs
                                      THEN kwargs["stacktrace"] ELSE None,
                       message    |-> message,
                       status     |-> IF given THEN CIntVal(status) ELSE 400])

(* Binding of a call to the signature (self, str message = None) shared by *)
(* the seven subclasses: TRUE when the call is rejected.                   *)
RejectedByMessageOnly(pos, kw) ==
    \/ Len(pos) > 1
    \/ DOMAIN kw \ {"message"} # {}
    \/ Len(pos) = 1 /\ "message" \in DOMAIN kw
    \/ LET m == IF Len(pos) = 1 THEN pos[1]
                ELSE IF "message" \in DOMAIN kw THEN kw["message"] ELSE None
       IN  m.type \notin {"str", "NoneType"}

MessageOnly(pos, kw) ==
    IF Len(pos) = 1 THEN pos[1]
    ELSE IF "message" \in DOMAIN kw THEN kw["message"] ELSE None

StatusKw(n) == [k \in {"status"} |-> PyInt(n)]

ConfigErrorNoStatus(pos, kw) ==
    IF RejectedByMessageOnly(pos, kw) THEN Raise("TypeError")
    ELSE AuthException("ConfigError",
             <<PyOr(MessageOnly(pos, kw), Str("Auth Configuration Error."))>>,
             NoKw)

ConfigError(pos, kw) ==
    IF RejectedByMessageOnly(pos, kw) THEN Raise("TypeError")
    ELSE AuthException("ConfigError",
             <<PyOr(MessageOnly(pos, kw), Str("Auth Configuration Error."))>>,
             StatusKw(500))

UserNotFound(pos, kw) ==
    IF RejectedByMessageOnly(pos, kw) THEN Raise("TypeError")
    ELSE AuthException("UserNotFound",
             <<PyOr(MessageOnly(pos, kw), Str("User doesn't exists."))>>,
             StatusKw(404))

Unauthorized(pos, kw) ==
    IF RejectedByMessageOnly(pos, kw) THEN Raise("TypeError")
    ELSE AuthException("Unauthorized",
             <<PyOr(MessageOnly(pos, kw), Str("Unauthorized"))>>,
             StatusKw(401))

InvalidAuth(pos, kw) ==
    IF RejectedByMessageOnly(pos, kw) THEN Raise("TypeError")
    ELSE AuthException("InvalidAuth",
             <<PyOr(MessageOnly(pos, kw), Str("Invalid Authentication"))>>,
             StatusKw(401))

FailedAuth(pos, kw) ==
    IF RejectedByMessageOnly(pos, kw) THEN Raise("TypeError")
    ELSE AuthException("FailedAuth",
             <<PyOr(MessageOnly(pos, kw), Str("Failed Authorization"))>>,
             StatusKw(403))

ForbiddenIgnoresMessage(pos, kw) ==
    IF RejectedByMessageOnly(pos, kw) THEN Raise("TypeError")
    ELSE AuthException("Forbidden", <<Str("Forbidden")>>, StatusKw(403))

Forbidden(pos, kw) ==
    IF RejectedByMessageOnly(pos, kw) THEN Raise("TypeError")
    ELSE AuthException("Forbidden",
             <<PyOr(MessageOnly(pos, kw), Str("Forbidden"))>>,
             StatusKw(403))

(* A subclass that forwards the caller's keywords to the base class. *)
AuthExpiredForwardsKw(pos, kw) ==
    IF Len(pos) > 1 \/ (Len(pos) = 1 /\ "message" \in DOMAIN kw)
    THEN Raise("TypeError")
    ELSE AuthException("AuthExpired",
             <<PyOr(MessageOnly(pos, kw), Str("Gone: Authentication Expired."))>>,
             [k \in (DOMAIN kw \ {"message"}) \cup {"status"} |->
                 IF k \in DOMAIN kw THEN kw[k] ELSE PyInt(410)])

AuthExpired(pos, kw) ==
    IF RejectedByMessageOnly(pos, kw) THEN Raise("TypeError")
    ELSE AuthException("AuthExpired",
             <<PyOr(MessageOnly(pos, kw), Str("Gone: Authentication Expired."))>>,
             StatusKw(410))

Subtypes == {"ConfigError", "UserNotFound", "Unauthorized", "InvalidAuth",
             "FailedAuth", "Forbidden", "AuthExpired"}

Classes == {"AuthException"} \cup Subtypes

(* Instantiation of class cls with the given arguments. *)
New(cls, pos, kw) ==
    CASE cls = "AuthException" -> AuthException("AuthException", pos, kw)
      [] cls = "ConfigError"   -> ConfigError(pos, kw)
      [] cls = "UserNotFound"  -> UserNotFound(pos, kw)
      [] cls = "Unauthorized"  -> Unauthorized(pos, kw)
      [] cls = "InvalidAuth"   -> InvalidAuth(pos, kw)
      [] cls = "FailedAuth"    -> FailedAuth(pos, kw)
      [] cls = "Forbidden"     -> Forbidden(pos, kw)
      [] cls = "AuthExpired"   -> AuthExpired(pos, kw)

-----------------------------------------------------------------------------
(* Arguments the constructors are called with. *)

Messages == {None, Str(""), Str("nope")}

Statuses == {PyInt(503), PyInt(0), PyInt(-1), PyInt(2147483647),
             PyBig(32768, 0), PyBig(-32769, 65535)}

Stacktraces == {None, Str("tb")}

Keys == {"message", "status", "stacktrace"}

ValuesOf(k) == CASE k = "message"    -> Messages
                 [] k = "status"     -> Statuses
                 [] k = "stacktrace" -> Stacktraces

Positionals == {<<>>} \cup {<<m>> : m \in Messages}
                      \cup {<<m, s>> : m \in Messages, s \in Statuses}

Keywords == UNION {{f \in [K -> Messages \cup Statuses \cup Stacktraces] :
                       \A k \in K : f[k] \in ValuesOf(k)} : K \in SUBSET Keys}

NoCall == [cls |-> "none"]

-----------------------------------------------------------------------------
(* State machine. *)

Init ==
    /\ call = NoCall
    /\ outcome = [kind |-> "none"]
    /\ op = "none"
    /\ ret = None
    /\ ncalls = 0
    /\ gets = <<>>

Construct ==
    /\ op = "none"
    /\ \E cls \in Classes, pos \in Positionals, kw \in Keywords :
          /\ call' = [cls |-> cls, pos |-> pos, kw |-> kw]
          /\ outcome' = New(cls, pos, kw)
    /\ op' = "construct"
    /\ UNCHANGED <<ret, ncalls, gets>>

getReturnsStr ==
    /\ outcome.kind = "instance"
    /\ ncalls < MaxCalls
    /\ ret' = Str(ModuleName \o ": " \o Format(outcome.obj.message))
    /\ gets' = Append(gets, ret')
    /\ op' = "get"
    /\ ncalls' = ncalls + 1
    /\ UNCHANGED <<call, outcome>>

(* AuthException.get *)
get ==
    /\ outcome.kind = "instance"
    /\ ncalls < MaxCalls
    /\ ret' = outcome.obj.message
    /\ gets' = Append(gets, ret')
    /\ op' = "get"
    /\ ncalls' = ncalls + 1
    /\ UNCHANGED <<call, outcome>>

strCachesMessage ==
    /\ outcome.kind = "instance"
    /\ ncalls < MaxCalls
    /\ ret' = Str(ModuleName \o ": " \o Format(outcome.obj.message))
    /\ outcome' = [outcome EXCEPT !.obj.message = ret']
    /\ op' = "str"
    /\ ncalls' = ncalls + 1
    /\ UNCHANGED <<call, gets>>

(* AuthException.__str__ *)
str ==
    /\ outcome.kind = "instance"
    /\ ncalls < MaxCalls
    /\ ret' = Str(ModuleName \o ": " \o Format(outcome.obj.message))
    /\ op' = "str"
    /\ ncalls' = ncalls + 1
    /\ UNCHANGED <<call, outcome, gets>>

Next == Construct \/ get \/ str

Spec == Init /\ [][Next]_vars

-----------------------------------------------------------------------------
(* The constructor call as the caller wrote it. *)

Called == op # "none"

Constructed == outcome.kind = "instance"

HasMessageArg(c) == Len(c.pos) >= 1 \/ "message" \in DOMAIN c.kw

MessageArg(c) == IF Len(c.pos) >= 1 THEN c.pos[1] ELSE c.kw["message"]

HasStatusArg(c) == Len(c.pos) >= 2 \/ "status" \in DOMAIN c.kw

StatusArg(c) == IF Len(c.pos) >= 2 THEN c.pos[2] ELSE c.kw["status"]

(* The same parameter passed both by position and by keyword. *)
Ambiguous(c) ==
    \/ Len(c.pos) >= 1 /\ "message" \in DOMAIN c.kw
    \/ Len(c.pos) >= 2 /\ "status" \in DOMAIN c.kw

(* A call that passes at most a message. *)
MessageOnlyCall(c) ==
    /\ Len(c.pos) <= 1
    /\ DOMAIN c.kw \subseteq {"message"}
    /\ ~Ambiguous(c)

(* The table of defaults of the specification's data model. *)
DefaultMessage(cls) ==
    CASE cls = "ConfigError"  -> Str("Auth Configuration Error.")
      [] cls = "UserNotFound" -> Str("User doesn't exists.")
      [] cls = "Unauthorized" -> Str("Unauthorized")
      [] cls = "InvalidAuth"  -> Str("Invalid Authentication")
      [] cls = "FailedAuth"   -> Str("Failed Authorization")
      [] cls = "Forbidden"    -> Str("Forbidden")
      [] cls = "AuthExpired"  -> Str("Gone: Authentication Expired.")

DefaultStatus(cls) ==
    CASE cls = "ConfigError"  -> 500
      [] cls = "UserNotFound" -> 404
      [] cls = "Unauthorized" -> 401
      [] cls = "InvalidAuth"  -> 401
      [] cls = "FailedAuth"   -> 403
      [] cls = "Forbidden"    -> 403
      [] cls = "AuthExpired"  -> 410

-----------------------------------------------------------------------------
(* C1: a subtype constructed with only an explicit status (one a C int     *)
(* holds) yields an instance whose status is the supplied status and whose *)
(* message is the subtype's default.                                       *)
C1_StatusOverridesDefault ==
    (/\ Called
     /\ call.cls \in Subtypes
     /\ call.pos = <<>>
     /\ DOMAIN call.kw = {"status"}
     /\ CIntFits(call.kw["status"]))
    => /\ Constructed
       /\ outcome.obj.status = CIntVal(call.kw["status"])
       /\ outcome.obj.message = DefaultMessage(call.cls)

(* C2: for every type, a stacktrace keyword passed along with a positional *)
(* message is the instance's stacktrace afterwards, and an instance built  *)
(* without the keyword has stacktrace None.                                *)
C2_StacktraceRetrievable ==
    /\ (/\ Called
        /\ Len(call.pos) = 1
        /\ DOMAIN call.kw = {"stacktrace"})
       => /\ Constructed
          /\ outcome.obj.stacktrace = call.kw["stacktrace"]
    /\ (Called /\ Constructed /\ "stacktrace" \notin DOMAIN call.kw)
       => outcome.obj.stacktrace = None

(* C3: a subtype constructed with no arguments has exactly the tabulated   *)
(* default message and status.                                             *)
C3_NoArgsDefaults ==
    (Called /\ call.cls \in Subtypes /\ call.pos = <<>> /\ call.kw = NoKw)
    => /\ Constructed
       /\ outcome.obj.message = DefaultMessage(call.cls)
       /\ outcome.obj.status = DefaultStatus(call.cls)

C3_Witness ==
    /\ op = "construct"
    /\ call = [cls |-> "UserNotFound", pos |-> <<>>, kw |-> NoKw]
    /\ Constructed
    /\ outcome.obj.message = Str("User doesn't exists.")
    /\ outcome.obj.status = 404

(* C4: a subtype constructed with an explicit non-empty message and no     *)
(* status has exactly that message and the subtype's default status.       *)
C4_MessageOverridesDefault ==
    (/\ Called
     /\ call.cls \in Subtypes
     /\ MessageOnlyCall(call)
     /\ HasMessageArg(call)
     /\ Truthy(MessageArg(call)))
    => /\ Constructed
       /\ outcome.obj.message = MessageArg(call)
       /\ outcome.obj.status = DefaultStatus(call.cls)

C4_Witness ==
    /\ op = "construct"
    /\ call = [cls |-> "Forbidden", pos |-> <<Str("nope")>>, kw |-> NoKw]
    /\ Constructed
    /\ outcome.obj.message = Str("nope")
    /\ outcome.obj.status = 403

(* C5: a subtype whose message is omitted, None or the empty string gets   *)
(* the subtype's default message, and the message of every constructed     *)
(* subtype instance is a non-empty string.                                 *)
C5_DefaultWhenFalsy ==
    /\ (/\ Called
        /\ call.cls \in Subtypes
        /\ MessageOnlyCall(call)
        /\ (HasMessageArg(call) => MessageArg(call) \in {None, Str("")}))
       => /\ Constructed
          /\ outcome.obj.message = DefaultMessage(call.cls)
    /\ (Called /\ Constructed /\ call.cls \in Subtypes)
       => /\ outcome.obj.message.type = "str"
          /\ outcome.obj.message.val # ""

C5_Witness ==
    /\ op = "construct"
    /\ call = [cls |-> "Unauthorized", pos |-> <<Str("")>>, kw |-> NoKw]
    /\ Constructed
    /\ outcome.obj.message = Str("Unauthorized")

(* C6: every constructed instance has an integer status; a base instance   *)
(* built from a message alone has status 400, and a base instance built    *)
(* with an explicit status has that integer as its status.                 *)
C6_StatusAlwaysInteger ==
    /\ (Called /\ Constructed) => outcome.obj.status \in Int
    /\ (/\ Called
        /\ call.cls = "AuthException"
        /\ HasMessageArg(call)
        /\ ~Ambiguous(call)
        /\ ~HasStatusArg(call))
       => /\ Constructed
          /\ outcome.obj.status = 400
    /\ (/\ Called
        /\ Constructed
        /\ call.cls = "AuthException"
        /\ HasStatusArg(call))
       => outcome.obj.status = CIntVal(StatusArg(call))

C6_Witness ==
    /\ op = "construct"
    /\ call.cls = "AuthException"
    /\ call.pos = <<Str("nope")>>
    /\ DOMAIN call.kw = {"status"}
    /\ call.kw["status"] = PyInt(503)
    /\ Constructed
    /\ outcome.obj.status = 503

(* C7: get() returns the stored message, which is the supplied message     *)
(* when one was given (for a subtype: a non-empty one), the subtype's      *)
(* default otherwise, and None for a base instance built with None.        *)
C7_GetReturnsMessage ==
    op = "get" =>
       /\ ret = outcome.obj.message
       /\ (HasMessageArg(call)
              /\ (call.cls = "AuthException" \/ Truthy(MessageArg(call))))
              => ret = MessageArg(call)
       /\ (call.cls \in Subtypes /\ ~HasMessageArg(call))
              => ret = DefaultMessage(call.cls)
       /\ (call.cls \in Subtypes /\ HasMessageArg(call)
                                 /\ ~Truthy(MessageArg(call)))
              => ret = DefaultMessage(call.cls)
       /\ (call.cls = "AuthException" /\ HasMessageArg(call)
                                      /\ MessageArg(call) = None)
              => ret = None

C7_Witness ==
    /\ op = "get"
    /\ call.cls = "AuthException"
    /\ MessageArg(call) = None
    /\ ret = None

(* C8: a constructor call that passes each parameter at most once always   *)
(* yields an instance, never an exception.                                 *)
C8_ConstructionNeverFails ==
    (Called /\ ~Ambiguous(call)) => Constructed

(* C9: a get() or __str__() call leaves the instance's message, status and *)
(* stacktrace as they were, and all get() calls on one instance return the *)
(* same value.                                                             *)
C9_AccessorsDoNotMutate ==
    /\ [][op' \in {"get", "str"} =>
             /\ outcome'.obj.message = outcome.obj.message
             /\ outcome'.obj.status = outcome.obj.status
             /\ outcome'.obj.stacktrace = outcome.obj.stacktrace]_vars
    /\ [](\A i, j \in 1..Len(gets) : gets[i] = gets[j])

C9_Witness ==
    /\ op = "get"
    /\ ncalls >= 3
    /\ Len(gets) = 2
    /\ gets[1] = Str("nope")

(* C10: a constructed subtype instance has the status fixed by its type    *)
(* and stacktrace None, whatever the call was.                             *)
C10_SubtypeStatusFixed ==
    (Called /\ Constructed /\ call.cls \in Subtypes)
    => /\ outcome.obj.status = DefaultStatus(call.cls)
       /\ outcome.obj.stacktrace = None

C10_Witness ==
    /\ op = "construct"
    /\ call = [cls |-> "AuthExpired", pos |-> <<>>,
               kw |-> [k \in {"message"} |-> Str("nope")]]
    /\ Constructed
    /\ outcome.obj.status = 410
    /\ outcome.obj.stacktrace = None

====
